---------------------------- MODULE Spec2Model ----------------------------
(***************************************************************************)
(* A model of futures-jsonrpc: the JSON-RPC 2.0 message model              *)
(* (src/src/parser.rs), the failure type (src/src/lib.rs), the method      *)
(* helper macro generate_method! (src/src/lib.rs) and the dispatcher       *)
(* JrpcHandler with its RwLock-guarded registry (src/src/handler.rs).      *)
(*                                                                         *)
(* Two specifications share the module:                                    *)
(*   SpecMsg  applies the pure functions of the message model to inputs    *)
(*            drawn from bounded sets;                                      *)
(*   Spec     runs NumThreads threads that call register_method and        *)
(*            handle_message on one shared JrpcHandler.                     *)
(***************************************************************************)
EXTENDS Integers, FiniteSets, Sequences, TLC

VARIABLES
    mm,          \* SpecMsg: the last message-model call, its inputs and outputs
    hm_methods,  \* JrpcHandler.hm_methods: signature -> Option<handler>
    lock,        \* the RwLock around hm_methods: [writer, readers]
    th,          \* per thread: the call in progress and its locals
    lastReg      \* history: per signature, the handler of the latest successful insert

vars == <<mm, hm_methods, lock, th, lastReg>>

(***************************************************************************)
(* Option<T> is a set with at most one element.                            *)
(***************************************************************************)
None == {}
Some(x) == {x}
is_some(o) == o # {}
is_none(o) == o = {}
unwrap(o) == CHOOSE x \in o : TRUE

(***************************************************************************)
(* Result<T, ErrorVariant>.                                                *)
(***************************************************************************)
Ok(v) == [ok |-> TRUE, val |-> v]
Err(e) == [ok |-> FALSE, err |-> e]

(***************************************************************************)
(* serde_json::Value, by kind and printed content.                         *)
(***************************************************************************)
JNull == [kind |-> "null", v |-> "null"]
JBool(s) == [kind |-> "bool", v |-> s]
JNumber(s) == [kind |-> "number", v |-> s]
JString(s) == [kind |-> "string", v |-> s]
JArray(s) == [kind |-> "array", v |-> s]
JObject(s) == [kind |-> "object", v |-> s]

JsonValue ==
    { JNull, JBool("true"), JNumber("1"), JString("1"),
      JArray("[42,23]"), JObject("{}") }

(***************************************************************************)
(* ErrorVariant (lib.rs).  Payloads (the serde error, the io error, the    *)
(* message) are dropped: no code of the crate reads them.                  *)
(***************************************************************************)
ErrorVariant ==
    { "RwLockPoisoned", "MethodSignatureNotFound", "JsonParseError",
      "InvalidJsonRpcVersion", "InvalidJsonRpcId",
      "ResponseCannotContainResultAndError",
      "ResponseMustContainResultOrError", "NoRequestProvided", "IoError",
      "InternalError", "InternalErrorMessage" }

(***************************************************************************)
(* A JSON text.  wf = FALSE is a text serde_json cannot read as JSON; a    *)
(* well-formed text is an object given by its members, each absent (None)  *)
(* or present with a JSON value.  Members the struct does not name are     *)
(* ignored by the derived Deserialize and are left out.                    *)
(***************************************************************************)
MalformedText ==
    [wf |-> FALSE, jsonrpc |-> None, method |-> None, params |-> None,
     id |-> None]

ObjectText(j, m, p, i) ==
    [wf |-> TRUE, jsonrpc |-> j, method |-> m, params |-> p, id |-> i]

\* serde: a String field needs a member that is a JSON string.
de_String_ok(member) == is_some(member) /\ unwrap(member).kind = "string"

\* serde: an Option<Value> field reads a missing member and a null member
\* as None (Option's visitor: visit_none on null), anything else as Some.
de_Option(member) ==
    IF is_none(member) \/ member = Some(JNull) THEN None ELSE member

\* serde: an Option<T> field is written as null when None.
ser_Option(o) == IF is_none(o) THEN Some(JNull) ELSE o

(***************************************************************************)
(* JrpcRequest (parser.rs).                                                *)
(***************************************************************************)
JrpcRequest(j, m, p, i) ==
    [jsonrpc |-> j, method |-> m, params |-> p, id |-> i]

\* faulty variant: a validate that forgets the id check
JrpcRequest_validate_version_only(self) ==
    IF self.jsonrpc # "2.0" THEN Err("InvalidJsonRpcVersion") ELSE Ok(self)

JrpcRequest_validate(self) ==
    IF self.jsonrpc # "2.0" THEN Err("InvalidJsonRpcVersion")
    ELSE IF is_some(self.id)
            /\ unwrap(self.id).kind \notin {"string", "number", "null"}
         THEN Err("InvalidJsonRpcId")
         ELSE Ok(self)

JrpcRequest_new(method, params, id) ==
    JrpcRequest_validate(JrpcRequest("2.0", method, params, id))

\* serde_json::from_str::<JrpcRequest>
JrpcRequest_from_str(text) ==
    IF ~text.wf THEN Err("JsonParseError")
    ELSE IF ~de_String_ok(text.jsonrpc) \/ ~de_String_ok(text.method)
         THEN Err("JsonParseError")
         ELSE Ok(JrpcRequest(unwrap(text.jsonrpc).v, unwrap(text.method).v,
                             de_Option(text.params), de_Option(text.id)))

JrpcRequest_parse(message) ==
    LET parsed == JrpcRequest_from_str(message)
    IN  IF parsed.ok THEN JrpcRequest_validate(parsed.val) ELSE parsed

\* serde_json::to_string(&JrpcRequest)
JrpcRequest_to_string(self) ==
    ObjectText(Some(JString(self.jsonrpc)), Some(JString(self.method)),
               ser_Option(self.params), ser_Option(self.id))

is_notification(self) == is_none(self.id)


(***************************************************************************)
(* JrpcErrorEnum and JrpcError (parser.rs).                                *)
(***************************************************************************)
JrpcErrorEnum ==
    { "ParseError", "InvalidRequest", "MethodNotFound", "InvalidParams",
      "InternalError", "ServerError", "Other" }

\* impl From<i32> for JrpcErrorEnum
JrpcErrorEnum_from_i32(code) ==
    IF code = -32700 THEN "ParseError"
    ELSE IF code = -32600 THEN "InvalidRequest"
    ELSE IF code = -32601 THEN "MethodNotFound"
    ELSE IF code = -32602 THEN "InvalidParams"
    ELSE IF code = -32603 THEN "InternalError"
    ELSE IF code >= -32099 /\ code <= -32000 THEN "ServerError"
    ELSE "Other"

\* impl From<JrpcErrorEnum> for i32
i32_from_JrpcErrorEnum(jrpc_error) ==
    CASE jrpc_error = "ParseError" -> -32700
      [] jrpc_error = "InvalidRequest" -> -32600
      [] jrpc_error = "MethodNotFound" -> -32601
      [] jrpc_error = "InvalidParams" -> -32602
      [] jrpc_error = "InternalError" -> -32603
      [] jrpc_error = "ServerError" -> -32000
      [] jrpc_error = "Other" -> 0

JrpcError_new(code, message, data) ==
    [code |-> code, message |-> message, data |-> data]

JrpcErrorEnum_message(error_enum) ==
    CASE error_enum = "ParseError" ->
           "Invalid JSON was received by the server. An error occurred on the server while parsing the JSON text."
      [] error_enum = "InvalidRequest" -> "The JSON sent is not a valid Request object."
      [] error_enum = "MethodNotFound" -> "The method does not exist / is not available."
      [] error_enum = "InvalidParams" -> "Invalid method parameter(s)."
      [] error_enum = "InternalError" -> "Internal JSON-RPC error."
      [] error_enum = "ServerError" -> "Reserved for implementation-defined server-errors."
      [] error_enum = "Other" -> "JsonRpc Error"

\* impl From<JrpcErrorEnum> for JrpcError
JrpcError_from_JrpcErrorEnum(error_enum) ==
    JrpcError_new(i32_from_JrpcErrorEnum(error_enum),
                  JrpcErrorEnum_message(error_enum), None)

\* impl From<i32> for JrpcError
JrpcError_from_i32(error_code) ==
    JrpcError_from_JrpcErrorEnum(JrpcErrorEnum_from_i32(error_code))

\* faulty variant: the match without its InvalidJsonRpcId arm
ErrorVariant_code_no_id_arm(error_variant) ==
    CASE error_variant = "MethodSignatureNotFound" -> -32601
      [] error_variant = "JsonParseError" -> -32700
      [] error_variant = "InvalidJsonRpcVersion" -> -32600
      [] error_variant = "ResponseCannotContainResultAndError" -> -32600
      [] error_variant = "ResponseMustContainResultOrError" -> -32600
      [] OTHER -> -32603

\* the code each ErrorVariant is matched to (the argument of JrpcError::from)
ErrorVariant_code(error_variant) ==
    CASE error_variant = "MethodSignatureNotFound" -> -32601
      [] error_variant = "JsonParseError" -> -32700
      [] error_variant = "InvalidJsonRpcVersion" -> -32600
      [] error_variant = "InvalidJsonRpcId" -> -32600
      [] error_variant = "ResponseCannotContainResultAndError" -> -32600
      [] error_variant = "ResponseMustContainResultOrError" -> -32600
      [] OTHER -> -32603

\* impl From<ErrorVariant> for JrpcError
JrpcError_from_ErrorVariant(error_variant) ==
    JrpcError_from_i32(ErrorVariant_code(error_variant))

(***************************************************************************)
(* JrpcResponseParam and JrpcResponse (parser.rs).                         *)
(***************************************************************************)
JrpcResult(r) == [variant |-> "JrpcResult", r |-> r]
JrpcErrorParam(e) == [variant |-> "JrpcError", e |-> e]

JrpcResponse(j, r, e, i) ==
    [jsonrpc |-> j, result |-> r, error |-> e, id |-> i]

\* faulty variant: a validate that forgets the neither-result-nor-error check
JrpcResponse_validate_no_neither(self) ==
    IF self.jsonrpc # "2.0" THEN Err("InvalidJsonRpcVersion")
    ELSE IF is_some(self.result) /\ is_some(self.error)
         THEN Err("ResponseCannotContainResultAndError")
    ELSE IF self.id.kind \notin {"string", "number", "null"}
         THEN Err("InvalidJsonRpcId")
    ELSE Ok(self)

JrpcResponse_validate(self) ==
    IF self.jsonrpc # "2.0" THEN Err("InvalidJsonRpcVersion")
    ELSE IF is_some(self.result) /\ is_some(self.error)
         THEN Err("ResponseCannotContainResultAndError")
    ELSE IF is_none(self.result) /\ is_none(self.error)
         THEN Err("ResponseCannotContainResultAndError")
    ELSE IF self.id.kind \notin {"string", "number", "null"}
         THEN Err("InvalidJsonRpcId")
    ELSE Ok(self)

JrpcResponse_new(result, error, id) ==
    JrpcResponse_validate(JrpcResponse("2.0", result, error, id))

\* faulty variant: a from_jrpc_request that always answers with id null
JrpcResponse_from_jrpc_request_null_id(request, response) ==
    LET result == IF response.variant = "JrpcResult" THEN Some(response.r) ELSE None
        error == IF response.variant = "JrpcError" THEN Some(response.e) ELSE None
    IN  JrpcResponse_new(result, error, JNull)

JrpcResponse_from_jrpc_request(request, response) ==
    LET id == IF is_some(request.id) THEN unwrap(request.id) ELSE JNull
        result == IF response.variant = "JrpcResult" THEN Some(response.r) ELSE None
        error == IF response.variant = "JrpcError" THEN Some(response.e) ELSE None
    IN  JrpcResponse_new(result, error, id)

\* JrpcRequest::generate_response
generate_response(self, response) ==
    JrpcResponse_from_jrpc_request(self, response)

(***************************************************************************)
(* The text of a response.  The error member, when it is a JSON object, is *)
(* given by its own members code, message and data.                        *)
(***************************************************************************)
JErrorObject(code, message, data) ==
    [kind |-> "object", code |-> code, message |-> message, data |-> data]

MalformedResponseText ==
    [wf |-> FALSE, jsonrpc |-> None, result |-> None, error |-> None,
     id |-> None]

ResponseText(j, r, e, i) ==
    [wf |-> TRUE, jsonrpc |-> j, result |-> r, error |-> e, id |-> i]

\* serde: Option<JrpcError> reads missing and null as None; an object needs
\* an i32 code and a String message, data is an Option<Value>.
de_Option_JrpcError_ok(member) ==
    \/ is_none(member)
    \/ member = Some(JNull)
    \/ /\ unwrap(member).kind = "object"
       /\ "code" \in DOMAIN unwrap(member)

de_Option_JrpcError(member) ==
    IF is_none(member) \/ member = Some(JNull) THEN None
    ELSE LET o == unwrap(member)
         IN  Some(JrpcError_new(o.code, o.message, de_Option(o.data)))

\* serde_json::from_str::<JrpcResponse>; id is a Value, so it must be there.
JrpcResponse_from_str(text) ==
    IF ~text.wf THEN Err("JsonParseError")
    ELSE IF \/ ~de_String_ok(text.jsonrpc)
            \/ ~de_Option_JrpcError_ok(text.error)
            \/ is_none(text.id)
         THEN Err("JsonParseError")
         ELSE Ok(JrpcResponse(unwrap(text.jsonrpc).v, de_Option(text.result),
                              de_Option_JrpcError(text.error), unwrap(text.id)))

JrpcResponse_parse(message) ==
    LET parsed == JrpcResponse_from_str(message)
    IN  IF parsed.ok THEN JrpcResponse_validate(parsed.val) ELSE parsed

\* serde_json::to_string(&JrpcResponse)
JrpcResponse_to_string(self) ==
    ResponseText(
        Some(JString(self.jsonrpc)),
        ser_Option(self.result),
        IF is_none(self.error) THEN Some(JNull)
        ELSE LET e == unwrap(self.error)
             IN  Some(JErrorObject(e.code, e.message, ser_Option(e.data))),
        Some(self.id))

(***************************************************************************)
(* Handlers.  A struct made by generate_method! (lib.rs) holds             *)
(* request: Option<JrpcRequest>; the three Future impls are CopyParams     *)
(* (the crate's example), Subtract and Update (tests/integration_test.rs). *)
(* "Refusing" stands for a hand-written JrpcMethodTrait impl (method.rs)   *)
(* whose generate_future returns Err; "Registering" for one that holds a   *)
(* clone of the JrpcHandler it is registered in and, before it refuses,    *)
(* calls register_method on it from inside generate_future.                *)
(***************************************************************************)
MacroHandlers == {"CopyParams", "Subtract", "Update"}

\* $struct_identifier::new()
Handler_new(name) == [name |-> name, request |-> None]

get_request(self) ==
    IF is_some(self.request) THEN Ok(unwrap(self.request))
    ELSE Err("NoRequestProvided")

set_request(self, request) == Ok([self EXCEPT !.request = Some(request)])

\* faulty variant: a clone_with_request that returns the clone as it is
clone_with_request_unset(self, request) == Ok(self)

\* self.clone().set_request(request)
clone_with_request(self, request) == set_request(self, request)

\* JrpcMethodTrait::generate_future
generate_future(self, request) ==
    IF self.name \in MacroHandlers THEN clone_with_request(self, request)
    ELSE Err("InternalError")

\* Subtract::poll, the value computed from params
Subtract_value(params) ==
    IF params = Some(JArray("[42,23]")) THEN Some(JObject("{result:19}"))
    ELSE IF params = Some(JArray("[23,42]")) THEN Some(JObject("{result:-19}"))
    ELSE None

\* the JrpcResponseParam each Future impl hands to generate_response
poll_param(name, request) ==
    CASE name = "CopyParams" ->
           JrpcResult(IF is_some(request.params) THEN unwrap(request.params)
                      ELSE JNull)
      [] name = "Update" -> JrpcResult(JNull)
      [] name = "Subtract" ->
           IF is_some(Subtract_value(request.params))
           THEN JrpcResult(unwrap(Subtract_value(request.params)))
           ELSE JrpcErrorParam(JrpcError_from_JrpcErrorEnum("InvalidParams"))

\* faulty variant: a poll that has no reply for a notification
poll_silent_on_notification(self) ==
    LET request == get_request(self)
    IN  IF ~request.ok THEN request
        ELSE IF is_notification(request.val) THEN Ok(None)
        ELSE LET ret == generate_response(request.val,
                                          poll_param(self.name, request.val))
             IN  IF ret.ok THEN Ok(Some(ret.val)) ELSE ret

\* Future::poll: Result<Option<JrpcResponse>, ErrorVariant>.  CopyParams and
\* Update propagate a generate_response failure with `?`; Subtract turns it
\* into None with ret.ok().
poll(self) ==
    LET request == get_request(self)
    IN  IF ~request.ok THEN request
        ELSE LET ret == generate_response(request.val,
                                          poll_param(self.name, request.val))
             IN  IF ret.ok THEN Ok(Some(ret.val))
                 ELSE IF self.name = "Subtract" THEN Ok(None)
                 ELSE ret

(***************************************************************************)
(* The registry table and what handle_message does once it holds the read  *)
(* guard (handler.rs 54-58).                                               *)
(***************************************************************************)
Signatures == {"a", "b"}

EmptyTable == [s \in Signatures |-> None]

\* faulty variant: entry(signature).or_insert(jrpc_method): the first handler stays
hm_insert_if_absent(hm, signature, jrpc_method) ==
    IF is_some(hm[signature]) THEN hm
    ELSE [hm EXCEPT ![signature] = Some(jrpc_method)]

\* HashMap::insert
hm_insert(hm, signature, jrpc_method) ==
    [hm EXCEPT ![signature] = Some(jrpc_method)]

\* faulty variant: a lookup that falls back to any registered handler
hm_get_any(hm, method) ==
    IF method \in DOMAIN hm /\ is_some(hm[method]) THEN Ok(unwrap(hm[method]))
    ELSE IF \E s \in DOMAIN hm : is_some(hm[s])
         THEN Ok(unwrap(hm[CHOOSE s \in DOMAIN hm : is_some(hm[s])]))
         ELSE Err("MethodSignatureNotFound")

\* HashMap::get, then unwrap_or(Err(MethodSignatureNotFound))
hm_get(hm, method) ==
    IF method \in DOMAIN hm /\ is_some(hm[method]) THEN Ok(unwrap(hm[method]))
    ELSE Err("MethodSignatureNotFound")

\* faulty variant: a closure that goes on to a handler after a failed lookup
dispatch_after_failed_lookup(hm, request) ==
    LET method == hm_get(hm, request.method)
    IN  IF method.ok THEN generate_future(method.val, request)
        ELSE generate_future(Handler_new("CopyParams"), request)

\* the closure given to and_then under the read guard
dispatch(hm, request) ==
    LET method == hm_get(hm, request.method)
    IN  IF method.ok THEN generate_future(method.val, request) ELSE method

\* handle_message when try_read succeeds: parse, then dispatch (handler.rs 47-59)
handle_message_unlocked(hm, message) ==
    LET request == JrpcRequest_parse(message)
    IN  IF request.ok THEN dispatch(hm, request.val) ELSE request

(***************************************************************************)
(* Inputs of the message model.                                            *)
(***************************************************************************)
JsonrpcMembers ==
    { None, Some(JString("2.0")), Some(JString("1.0")), Some(JNumber("2.0")) }

MethodMembers == { None, Some(JString("a")), Some(JString("c")) }

ParamsMembers == { None, Some(JNull), Some(JArray("[42,23]")) }

IdMembers == { None } \cup { Some(v) : v \in JsonValue }

RequestTexts ==
    { MalformedText } \cup
    { ObjectText(j, m, p, i) : j \in JsonrpcMembers, m \in MethodMembers,
                               p \in ParamsMembers, i \in IdMembers }

Methods == { "a", "c" }

Errors ==
    { JrpcError_from_JrpcErrorEnum("InvalidParams"),
      JrpcError_new(-32000, "busy", Some(JNull)) }

ResponseParams ==
    { JrpcResult(v) : v \in { JNull, JNumber("1"), JObject("{}") } } \cup
    { JrpcErrorParam(e) : e \in Errors }

\* i32 codes: the five fixed ones, the ends and the middle of the server
\* range, its two outer neighbours, and two unlisted codes
Codes ==
    { -32700, -32600, -32601, -32602, -32603, -32100, -32099, -32050, -32000,
      -31999, 0, 1 }

ResponseTexts ==
    { MalformedResponseText } \cup
    { ResponseText(j, r, e, i) :
        j \in { None, Some(JString("2.0")), Some(JString("1.0")) },
        r \in { None, Some(JNull), Some(JNumber("1")) },
        e \in { None, Some(JNull), Some(JString("oops")),
                Some(JErrorObject(-32602, "Invalid method parameter(s).", None)) },
        i \in { None, Some(JNull), Some(JNumber("1")), Some(JBool("true")) } }

(***************************************************************************)
(* SpecMsg: the message model as pure functions.  InitMsg draws the        *)
(* arguments of one call; the actions apply the function and then what can *)
(* be done with its result.  Every field of mm is an Option, Some only for *)
(* what the call read or wrote.                                            *)
(***************************************************************************)
NoCall ==
    [op |-> "none", text |-> None, args |-> None, request |-> None,
     req |-> None, param |-> None, rtext |-> None, rargs |-> None,
     resp |-> None, variant |-> None, error |-> None, handler |-> None,
     future |-> None, out |-> None, code |-> None, error_enum |-> None,
     i32 |-> None, response |-> None]

Arguments ==
    { [NoCall EXCEPT !.text = Some(text)] : text \in RequestTexts } \cup
    { [NoCall EXCEPT !.args = Some(JrpcRequest("2.0", method, params, id))] :
        method \in Methods, params \in ParamsMembers, id \in IdMembers } \cup
    { [NoCall EXCEPT !.rtext = Some(text)] : text \in ResponseTexts } \cup
    { [NoCall EXCEPT !.rargs = Some(JrpcResponse("2.0", result, error, id))] :
        result \in { None, Some(JNull), Some(JNumber("1")) },
        error \in { None } \cup { Some(e) : e \in Errors },
        id \in JsonValue } \cup
    { [NoCall EXCEPT !.variant = Some(error_variant)] :
        error_variant \in ErrorVariant } \cup
    { [NoCall EXCEPT !.code = Some(code)] : code \in Codes } \cup
    { [NoCall EXCEPT !.error_enum = Some(jrpc_error)] :
        jrpc_error \in JrpcErrorEnum } \cup
    { [NoCall EXCEPT !.handler = Some(name), !.text = Some(text)] :
        name \in MacroHandlers \cup {"Refusing"}, text \in RequestTexts }

\* JrpcRequest::parse(text)
Request_parse ==
    /\ mm.op = "none" /\ is_some(mm.text) /\ is_none(mm.handler)
    /\ mm' = [mm EXCEPT !.op = "JrpcRequest::parse",
                        !.req = Some(JrpcRequest_parse(unwrap(mm.text)))]
    /\ UNCHANGED <<hm_methods, lock, th, lastReg>>

\* JrpcRequest::new(method, params, id)
Request_new ==
    /\ mm.op = "none" /\ is_some(mm.args)
    /\ LET a == unwrap(mm.args)
       IN  mm' = [mm EXCEPT !.op = "JrpcRequest::new",
                            !.req = Some(JrpcRequest_new(a.method, a.params, a.id))]
    /\ UNCHANGED <<hm_methods, lock, th, lastReg>>

\* serde_json::to_string of the request just obtained, then JrpcRequest::parse
Request_roundtrip ==
    /\ mm.op \in {"JrpcRequest::parse", "JrpcRequest::new"}
    /\ unwrap(mm.req).ok
    /\ LET request == unwrap(mm.req).val
       IN  mm' = [NoCall EXCEPT
                    !.op = "roundtrip", !.request = Some(request),
                    !.text = Some(JrpcRequest_to_string(request)),
                    !.req = Some(JrpcRequest_parse(JrpcRequest_to_string(request)))]
    /\ UNCHANGED <<hm_methods, lock, th, lastReg>>

\* request.generate_response(param) on the request just obtained
Request_generate_response(param) ==
    /\ mm.op \in {"JrpcRequest::parse", "JrpcRequest::new"}
    /\ unwrap(mm.req).ok
    /\ LET request == unwrap(mm.req).val
       IN  mm' = [NoCall EXCEPT
                    !.op = "generate_response", !.request = Some(request),
                    !.param = Some(param),
                    !.resp = Some(generate_response(request, param))]
    /\ UNCHANGED <<hm_methods, lock, th, lastReg>>

\* JrpcResponse::new(result, error, id)
Response_new ==
    /\ mm.op = "none" /\ is_some(mm.rargs)
    /\ LET a == unwrap(mm.rargs)
       IN  mm' = [mm EXCEPT !.op = "JrpcResponse::new",
                            !.resp = Some(JrpcResponse_new(a.result, a.error, a.id))]
    /\ UNCHANGED <<hm_methods, lock, th, lastReg>>

\* JrpcResponse::parse(text)
Response_parse ==
    /\ mm.op = "none" /\ is_some(mm.rtext)
    /\ mm' = [mm EXCEPT !.op = "JrpcResponse::parse",
                        !.resp = Some(JrpcResponse_parse(unwrap(mm.rtext)))]
    /\ UNCHANGED <<hm_methods, lock, th, lastReg>>

\* response.validate() on a response just obtained
Response_validate ==
    /\ mm.op \in {"JrpcResponse::new", "JrpcResponse::parse", "generate_response"}
    /\ unwrap(mm.resp).ok
    /\ mm' = [NoCall EXCEPT
                !.op = "JrpcResponse::validate",
                !.resp = Some(JrpcResponse_validate(unwrap(mm.resp).val))]
    /\ UNCHANGED <<hm_methods, lock, th, lastReg>>

\* serde_json::to_string of the response generate_response returned, then
\* JrpcResponse::parse
Response_roundtrip ==
    /\ mm.op = "generate_response"
    /\ unwrap(mm.resp).ok
    /\ LET response == unwrap(mm.resp).val
       IN  mm' = [mm EXCEPT
                    !.op = "response roundtrip", !.response = Some(response),
                    !.rtext = Some(JrpcResponse_to_string(response)),
                    !.resp = Some(JrpcResponse_parse(JrpcResponse_to_string(response)))]
    /\ UNCHANGED <<hm_methods, lock, th, lastReg>>

\* JrpcError::from(error_variant)
Error_from ==
    /\ mm.op = "none" /\ is_some(mm.variant)
    /\ mm' = [mm EXCEPT !.op = "JrpcError::from",
                        !.error = Some(JrpcError_from_ErrorVariant(unwrap(mm.variant)))]
    /\ UNCHANGED <<hm_methods, lock, th, lastReg>>

\* JrpcErrorEnum::from(code)
Enum_from_i32 ==
    /\ mm.op = "none" /\ is_some(mm.code)
    /\ mm' = [mm EXCEPT !.op = "JrpcErrorEnum::from",
                        !.error_enum = Some(JrpcErrorEnum_from_i32(unwrap(mm.code)))]
    /\ UNCHANGED <<hm_methods, lock, th, lastReg>>

\* i32::from(jrpc_error), on an enum given or on the one just obtained
i32_from_Enum ==
    /\ mm.op \in {"none", "JrpcErrorEnum::from"} /\ is_some(mm.error_enum)
    /\ mm' = [mm EXCEPT !.op = "i32::from",
                        !.i32 = Some(i32_from_JrpcErrorEnum(unwrap(mm.error_enum)))]
    /\ UNCHANGED <<hm_methods, lock, th, lastReg>>

\* JrpcError::from(error_code)
Error_from_i32 ==
    /\ mm.op = "none" /\ is_some(mm.code)
    /\ mm' = [mm EXCEPT !.op = "JrpcError::from(i32)",
                        !.error = Some(JrpcError_from_i32(unwrap(mm.code)))]
    /\ UNCHANGED <<hm_methods, lock, th, lastReg>>

\* the flow of the integration tests on a fresh JrpcHandler: register_method
\* ("a", handler), handle_message(text), then wait() on the future
Handle_and_wait ==
    /\ mm.op = "none" /\ is_some(mm.handler)
    /\ LET hm == hm_insert(EmptyTable, "a", Handler_new(unwrap(mm.handler)))
           future == handle_message_unlocked(hm, unwrap(mm.text))
       IN  mm' = [mm EXCEPT
                    !.op = "handle_message", !.future = Some(future),
                    !.out = IF future.ok THEN Some(poll(future.val)) ELSE None]
    /\ UNCHANGED <<hm_methods, lock, th, lastReg>>

NextMsg ==
    \/ Request_parse
    \/ Request_new
    \/ Request_roundtrip
    \/ \E param \in ResponseParams : Request_generate_response(param)
    \/ Response_new
    \/ Response_parse
    \/ Response_validate
    \/ Response_roundtrip
    \/ Error_from
    \/ Enum_from_i32
    \/ i32_from_Enum
    \/ Error_from_i32
    \/ Handle_and_wait

(***************************************************************************)
(* Spec: NumThreads threads share one JrpcHandler (Arc<RwLock<HashMap>>).  *)
(***************************************************************************)
NumThreads == 2

Threads == 1..NumThreads

\* the handlers the threads register
RegisteredHandlers ==
    { Handler_new("CopyParams"), Handler_new("Refusing"),
      Handler_new("Registering") }

\* the register_method calls the threads make: "a" is given CopyParams or
\* Refusing, "b" is given CopyParams or Registering
Registrations ==
    { r \in Signatures \X RegisteredHandlers :
        r[2].name = "CopyParams" \/ (r[1] = "a") = (r[2].name = "Refusing") }

\* the messages the threads send
ValidTexts ==
    { ObjectText(Some(JString("2.0")), Some(JString("a")),
                 Some(JArray("[42,23]")), i) : i \in { None, Some(JNull) } } \cup
    { ObjectText(Some(JString("2.0")), Some(JString("b")), None, i) :
        i \in { Some(JNumber("1")), Some(JString("1")) } }

InvalidTexts ==
    { MalformedText,
      ObjectText(None, Some(JString("a")), None, Some(JNumber("1"))),
      ObjectText(Some(JString("1.0")), Some(JString("a")), None,
                 Some(JNumber("1"))) }

DispatchTexts == ValidTexts \cup InvalidTexts

\* faulty variant: a try_write that looks at the writer only
try_write_ignoring_readers(l, t) ==
    IF is_none(l.writer) THEN Ok([l EXCEPT !.writer = Some(t)])
    ELSE Err("WouldBlock")

\* RwLock::try_write: granted only when nobody holds the lock
try_write(l, t) ==
    IF is_none(l.writer) /\ l.readers = {}
    THEN Ok([l EXCEPT !.writer = Some(t)])
    ELSE Err("WouldBlock")

\* faulty variant: a try_read that is granted whoever holds the lock
try_read_ignoring_writer(l, t) ==
    Ok([l EXCEPT !.readers = @ \cup {t}])

\* RwLock::try_read: granted unless a writer holds the lock
try_read(l, t) ==
    IF is_none(l.writer) THEN Ok([l EXCEPT !.readers = @ \cup {t}])
    ELSE Err("WouldBlock")

\* dropping the write guard
drop_write(l, t) == [l EXCEPT !.writer = None]

\* faulty variant: a read guard that is never released
drop_read_leaking(l, t) == l

\* dropping the read guard
drop_read(l, t) == [l EXCEPT !.readers = @ \ {t}]

\* faulty variant: a register_method that inserts without taking the lock
register_method_call_unguarded(hm, l, t, signature, jrpc_method) ==
    [hm |-> hm_insert(hm, signature, jrpc_method), lock |-> l, ret |-> Ok("self")]

\* register_method(signature, jrpc_method) run from its first to its last line
\* by a thread t that may hold a guard of the lock itself (handler.rs 17-38):
\* the table and the lock it leaves, and what it returns
register_method_call(hm, l, t, signature, jrpc_method) ==
    LET w == try_write(l, t)
    IN  IF w.ok
        THEN [hm |-> hm_insert(hm, signature, jrpc_method),
              lock |-> drop_write(w.val, t), ret |-> Ok("self")]
        ELSE [hm |-> hm, lock |-> l, ret |-> Err("RwLockPoisoned")]

\* a thread that is in no call; until it drops them, ret and out keep what its
\* last call returned
Returned == { "idle", "reg_done", "hm_done", "waited" }

Idle ==
    [pc |-> "idle", signature |-> None, jrpc_method |-> None,
     message |-> None, guard |-> "none", found |-> None, ret |-> None,
     out |-> None]

Init ==
    /\ mm = NoCall
    /\ hm_methods = EmptyTable
    /\ lock = [writer |-> None, readers |-> {}]
    /\ th = [t \in Threads |-> Idle]
    /\ lastReg = EmptyTable

\* register_method is called (handler.rs 17-24)
register_method(t, signature, jrpc_method) ==
    /\ th[t].pc = "idle"
    /\ th' = [th EXCEPT ![t] = [Idle EXCEPT !.pc = "reg_try_write",
                                           !.signature = Some(signature),
                                           !.jrpc_method = Some(jrpc_method)]]
    /\ UNCHANGED <<mm, hm_methods, lock, lastReg>>

\* try_write().map_err(|_| RwLockPoisoned) (handler.rs 27-29, 33)
register_method_try_write(t) ==
    /\ th[t].pc = "reg_try_write"
    /\ LET w == try_write(lock, t)
       IN  IF w.ok
           THEN /\ lock' = w.val
                /\ th' = [th EXCEPT ![t].pc = "reg_insert", ![t].guard = "write"]
           ELSE /\ lock' = lock
                /\ th' = [th EXCEPT ![t] =
                             [Idle EXCEPT !.pc = "reg_done", !.guard = "refused",
                                          !.ret = Some(Err("RwLockPoisoned"))]]
    /\ UNCHANGED <<mm, hm_methods, lastReg>>

\* hm.insert under the write guard, the guard dropped, Ok(self)
\* (handler.rs 30-37)
register_method_insert(t) ==
    /\ th[t].pc = "reg_insert"
    /\ hm_methods' = hm_insert(hm_methods, unwrap(th[t].signature),
                               unwrap(th[t].jrpc_method))
    /\ lastReg' = [lastReg EXCEPT ![unwrap(th[t].signature)] = th[t].jrpc_method]
    /\ lock' = drop_write(lock, t)
    /\ th' = [th EXCEPT ![t] = [Idle EXCEPT !.pc = "reg_done", !.guard = "write",
                                           !.ret = Some(Ok("self"))]]
    /\ UNCHANGED mm

\* handle_message is called: JrpcRequest::parse(message)? (handler.rs 40-48)
handle_message(t, message) ==
    /\ th[t].pc = "idle"
    /\ LET request == JrpcRequest_parse(message)
       IN  th' = [th EXCEPT ![t] =
                    IF request.ok
                    THEN [Idle EXCEPT !.pc = "hm_try_read", !.message = Some(message)]
                    ELSE [Idle EXCEPT !.pc = "hm_done", !.message = Some(message),
                                      !.ret = Some(request)]]
    /\ UNCHANGED <<mm, hm_methods, lock, lastReg>>

\* try_read().map_err(|_| RwLockPoisoned) (handler.rs 51-53, 59)
handle_message_try_read(t) ==
    /\ th[t].pc = "hm_try_read"
    /\ LET r == try_read(lock, t)
       IN  IF r.ok
           THEN /\ lock' = r.val
                /\ th' = [th EXCEPT ![t].pc = "hm_dispatch", ![t].guard = "read"]
           ELSE /\ lock' = lock
                /\ th' = [th EXCEPT ![t].pc = "hm_done", ![t].guard = "refused",
                                    ![t].ret = Some(Err("RwLockPoisoned"))]
    /\ UNCHANGED <<mm, hm_methods, lastReg>>

\* hm.get(method), MethodSignatureNotFound or generate_future(request), then
\* the read guard is dropped and handle_message returns (handler.rs 54-63).
\* The guard is held for the whole of generate_future: a "Registering" handler
\* calls register_method(method, CopyParams) on this JrpcHandler while t is
\* still a reader, and returns that call's failure.
handle_message_dispatch(t) ==
    /\ th[t].pc = "hm_dispatch"
    /\ LET request == JrpcRequest_parse(unwrap(th[t].message)).val
           method == hm_get(hm_methods, request.method)
           registers == method.ok /\ method.val.name = "Registering"
           inner == IF registers
                    THEN register_method_call(hm_methods, lock, t, request.method,
                                              Handler_new("CopyParams"))
                    ELSE [hm |-> hm_methods, lock |-> lock, ret |-> Ok("self")]
       IN  /\ th' = [th EXCEPT ![t].pc = "hm_done",
                               ![t].found = Some(method),
                               ![t].ret = Some(IF inner.ret.ok
                                               THEN dispatch(hm_methods, request)
                                               ELSE inner.ret)]
           /\ hm_methods' = inner.hm
           /\ lastReg' = IF registers /\ inner.ret.ok
                         THEN [lastReg EXCEPT ![request.method] =
                                  Some(Handler_new("CopyParams"))]
                         ELSE lastReg
           /\ lock' = drop_read(inner.lock, t)
    /\ UNCHANGED mm

\* the caller drives the returned future to completion: future.wait()
wait(t) ==
    /\ th[t].pc = "hm_done"
    /\ unwrap(th[t].ret).ok
    /\ th' = [th EXCEPT ![t].pc = "waited",
                        ![t].out = Some(poll(unwrap(th[t].ret).val))]
    /\ UNCHANGED <<mm, hm_methods, lock, lastReg>>

\* the caller drops what the call returned (the Result, the future, the
\* response) and is free for its next call
drop_result(t) ==
    /\ th[t].pc \in Returned \ {"idle"}
    /\ th' = [th EXCEPT ![t] = Idle]
    /\ UNCHANGED <<mm, hm_methods, lock, lastReg>>

\* what thread t can do next
thread(t) ==
       \/ \E r \in Registrations : register_method(t, r[1], r[2])
       \/ register_method_try_write(t)
       \/ register_method_insert(t)
       \/ \E message \in DispatchTexts : handle_message(t, message)
       \/ handle_message_try_read(t)
       \/ handle_message_dispatch(t)
       \/ wait(t)
       \/ drop_result(t)

Next == \E t \in Threads : thread(t)

Spec == Init /\ [][Next]_vars

InitMsg ==
    /\ mm \in Arguments
    /\ hm_methods = EmptyTable
    /\ lock = [writer |-> None, readers |-> {}]
    /\ th = [t \in Threads |-> Idle]
    /\ lastReg = EmptyTable

SpecMsg == InitMsg /\ [][NextMsg]_vars

(***************************************************************************)
(* Properties of the dispatcher (Spec).                                    *)
(***************************************************************************)
\* the request a thread's message parses to
request_of(t) == JrpcRequest_parse(unwrap(th[t].message))

\* a handle_message of t has returned for a valid text whose method has no
\* entry in the table
UnknownMethodReturned(t) ==
    /\ th[t].pc = "hm_done"
    /\ request_of(t).ok
    /\ is_none(hm_methods[request_of(t).val.method])

\* C1 as claimed: for every registry state, handle_message on a syntactically
\* valid request text whose method is not registered fails with
\* MethodSignatureNotFound, returns no future, and the JrpcError made from the
\* failure has code -32601.
C1_UnknownMethodAlwaysNotFound ==
    \A t \in Threads :
       UnknownMethodReturned(t) =>
          /\ unwrap(th[t].ret) = Err("MethodSignatureNotFound")
          /\ JrpcError_from_ErrorVariant(unwrap(th[t].ret).err).code = -32601

\* C1 amended: on a syntactically valid request text whose method is not
\* registered, a handle_message that obtains the read guard fails with
\* MethodSignatureNotFound (JrpcError code -32601); one whose try_read is
\* refused fails with RwLockPoisoned (code -32603).  Neither returns a future.
C1_UnknownMethodNotFoundWhenReadable ==
    \A t \in Threads :
       UnknownMethodReturned(t) =>
          /\ ~unwrap(th[t].ret).ok
          /\ th[t].guard = "read" =>
                /\ unwrap(th[t].ret) = Err("MethodSignatureNotFound")
                /\ JrpcError_from_ErrorVariant(unwrap(th[t].ret).err).code = -32601
          /\ th[t].guard # "read" =>
                /\ th[t].guard = "refused"
                /\ unwrap(th[t].ret) = Err("RwLockPoisoned")
                /\ JrpcError_from_ErrorVariant(unwrap(th[t].ret).err).code = -32603

\* C1 witness: an unknown method was looked up under the read guard while
\* another signature is registered
C1_Witness ==
    \E t \in Threads :
       /\ UnknownMethodReturned(t)
       /\ th[t].guard = "read"
       /\ unwrap(th[t].ret) = Err("MethodSignatureNotFound")
       /\ \E s \in Signatures : is_some(hm_methods[s])

\* C2: registration is last-writer-wins and entries are never removed: the
\* table holds, for every signature, the handler of the most recent successful
\* register_method; an entry once present stays present; and a handle_message
\* that holds the read guard and names a registered signature dispatches to
\* exactly that handler (its generate_future; for the handler that registers
\* from inside generate_future, whatever that call returns), never to
\* MethodSignatureNotFound.
C2_LastWriterWins ==
    /\ [](\A s \in Signatures : hm_methods[s] = lastReg[s])
    /\ [][\A s \in Signatures : is_some(hm_methods[s]) => is_some(hm_methods'[s])]_vars
    /\ [][\A t \in Threads :
            (th[t].pc = "hm_dispatch" /\ th'[t].pc = "hm_done"
             /\ is_some(lastReg[request_of(t).val.method])) =>
               LET latest == unwrap(lastReg[request_of(t).val.method])
               IN  /\ th'[t].found = Some(Ok(latest))
                   /\ th'[t].ret # Some(Err("MethodSignatureNotFound"))
                   /\ latest.name # "Registering" =>
                         th'[t].ret = Some(generate_future(latest, request_of(t).val))]_vars

\* C2 witness: two dispatches of signature "a" have returned, the earlier one
\* to the handler registered first, the later one to the handler that
\* replaced it, which is the one in the table
C2_Witness ==
    \E t, u \in Threads :
       /\ th[t].pc = "hm_done" /\ th[u].pc = "hm_done"
       /\ request_of(t).ok /\ request_of(t).val.method = "a"
       /\ request_of(u).ok /\ request_of(u).val.method = "a"
       /\ th[t].found = Some(Ok(Handler_new("CopyParams")))
       /\ th[u].found = Some(Ok(Handler_new("Refusing")))
       /\ hm_methods["a"] = Some(Handler_new("Refusing"))

\* the registry lock is held by some thread
LockHeld == is_some(lock.writer) \/ lock.readers # {}

\* C10: register_method never waits: when its try_write finds the lock held
\* (by a reader or by a writer) the only step the call can take returns at once
\* with RwLockPoisoned and leaves the table and the lock as they were; and a
\* thread that is about to acquire the lock (try_write, try_read) can always
\* take that step, so no thread is blocked on the lock.
C10_RegisterNeverWaits ==
    \A t \in Threads :
       /\ (th[t].pc = "reg_try_write" /\ LockHeld) =>
             ~ENABLED (/\ thread(t)
                       /\ ~(/\ th'[t].pc = "reg_done"
                            /\ th'[t].ret = Some(Err("RwLockPoisoned"))
                            /\ hm_methods' = hm_methods
                            /\ lock' = lock))
       /\ th[t].pc \in {"reg_try_write", "hm_try_read"} => ENABLED thread(t)

\* C10 witness: a register_method was refused while another thread holds the
\* read guard, and the table has no entry
C10_Witness ==
    \E t, u \in Threads :
       /\ t # u
       /\ th[t].pc = "reg_done"
       /\ th[t].ret = Some(Err("RwLockPoisoned"))
       /\ u \in lock.readers
       /\ hm_methods = EmptyTable

\* the threads inside the table: the writer between try_write and the drop of
\* its guard, the readers between try_read and the drop of theirs
Writers == { t \in Threads : th[t].pc = "reg_insert" }
Readers == { t \in Threads : th[t].pc = "hm_dispatch" }

\* C11: one readers-writer lock guards the table: at most one register_method
\* is inside the table and then no handle_message lookup is; the lock's writer
\* and readers are exactly the threads inside; a try_read made while no writer
\* holds the lock is granted whatever readers there are and keeps them; a
\* try_read made while a writer holds it returns RwLockPoisoned at once, with
\* no lookup done and the lock left as it was.
C11_ReadersWriterLock ==
    /\ [](/\ Cardinality(Writers) <= 1
          /\ Writers # {} => Readers = {}
          /\ \A t \in Threads : t \in Writers <=> lock.writer = Some(t)
          /\ lock.readers = Readers)
    /\ [][\A t \in Threads :
            (th[t].pc = "hm_try_read" /\ th'[t].pc # "hm_try_read") =>
               IF is_none(lock.writer)
               THEN /\ th'[t].pc = "hm_dispatch"
                    /\ lock'.readers = lock.readers \cup {t}
               ELSE /\ th'[t].pc = "hm_done"
                    /\ th'[t].ret = Some(Err("RwLockPoisoned"))
                    /\ th'[t].found = None
                    /\ lock' = lock]_vars

\* C11 witness: two lookups hold the read guard at the same time
C11_Witness ==
    \E t, u \in Threads :
       /\ t # u
       /\ {t, u} \subseteq lock.readers
       /\ th[t].pc = "hm_dispatch" /\ th[u].pc = "hm_dispatch"

\* thread t takes a step of handle_message: the call with its parse, the
\* try_read, or the lookup with generate_future and the return
HandleMessageStep(t) ==
    \/ th[t].pc = "idle" /\ th'[t].pc \in {"hm_try_read", "hm_done"}
    \/ th[t].pc = "hm_try_read" /\ th'[t].pc \in {"hm_dispatch", "hm_done"}
    \/ th[t].pc = "hm_dispatch" /\ th'[t].pc = "hm_done"

\* C12: handle_message never changes the registry: no step of handle_message,
\* on a text that fails to parse or to validate, on a refused try_read, on an
\* unknown method, on a generate_future that fails (also one that calls
\* register_method on the same JrpcHandler) or on one that returns a future,
\* changes the table.
C12_HandleMessageLeavesRegistry ==
    [][\A t \in Threads : HandleMessageStep(t) => hm_methods' = hm_methods]_vars

\* C12 witness: with both signatures registered, a handle_message has returned
\* the failure of a generate_future that tried to register a handler
C12_Witness ==
    \E t \in Threads :
       /\ th[t].pc = "hm_done"
       /\ th[t].found = Some(Ok(Handler_new("Registering")))
       /\ ~unwrap(th[t].ret).ok
       /\ hm_methods["a"] = Some(Handler_new("Refusing"))
       /\ hm_methods["b"] = Some(Handler_new("Registering"))

\* C14: per-request isolation: the future a handle_message returns is a copy
\* of the registered handler it found with the request of that very call
\* attached: get_request() on it returns the request its own message parses
\* to, whatever other dispatches of the same signature are under way, and the
\* response it resolves to carries that request's id; every handler stored in
\* the table keeps request None, so get_request() on it is NoRequestProvided.
C14_PerRequestIsolation ==
    /\ \A t \in Threads :
          (th[t].pc \in {"hm_done", "waited"} /\ unwrap(th[t].ret).ok) =>
             LET future == unwrap(th[t].ret).val
                 request == request_of(t).val
             IN  /\ get_request(future) = Ok(request)
                 /\ Ok(future) = clone_with_request(unwrap(th[t].found).val, request)
                 /\ unwrap(th[t].found).val \in RegisteredHandlers
                 /\ th[t].pc = "waited" =>
                       /\ unwrap(th[t].out).ok
                       /\ unwrap(unwrap(th[t].out).val).id =
                             (IF is_some(request.id) THEN unwrap(request.id)
                              ELSE JNull)
    /\ \A s \in Signatures :
          is_some(hm_methods[s]) =>
             get_request(unwrap(hm_methods[s])) = Err("NoRequestProvided")

\* C14 witness: two dispatches of signature "b" have returned futures of the
\* same registered handler, each with its own request (ids 1 and "1"), and
\* the handler in the table has none
C14_Witness ==
    \E t, u \in Threads :
       /\ th[t].pc = "hm_done" /\ th[u].pc = "hm_done"
       /\ unwrap(th[t].ret).ok /\ unwrap(th[u].ret).ok
       /\ th[t].found = th[u].found
       /\ request_of(t).val.method = "b" /\ request_of(u).val.method = "b"
       /\ get_request(unwrap(th[t].ret).val).val.id = Some(JNumber("1"))
       /\ get_request(unwrap(th[u].ret).val).val.id = Some(JString("1"))
       /\ hm_methods["b"] = Some(Handler_new("CopyParams"))

\* C16: handle_message goes parse and validation, try_read, lookup,
\* generate_future, and stops at the first failure.  Of a call that has
\* returned: a text that fails parse or validation gave that failure, with
\* the lock never asked for and no lookup; a refused try_read gave
\* RwLockPoisoned with no lookup, also for an unregistered method; a lookup
\* was made only under the read guard; a failed lookup gave
\* MethodSignatureNotFound; a future was returned only after parse, try_read
\* and lookup succeeded, and it is the one generate_future call on the handler
\* found.  Step by step: the call with a bad text returns at once whoever
\* holds the lock and whatever the table holds, try_read comes only after a
\* good parse, the lookup and generate_future only in the step that holds the
\* read guard, and that step returns.
C16_StepOrder ==
    /\ [](\A t \in Threads :
            th[t].pc \in {"hm_done", "waited"} =>
               /\ ~request_of(t).ok =>
                     /\ th[t].ret = Some(request_of(t))
                     /\ th[t].guard = "none" /\ th[t].found = None
               /\ request_of(t).ok => th[t].guard \in {"refused", "read"}
               /\ th[t].guard = "refused" =>
                     /\ th[t].ret = Some(Err("RwLockPoisoned"))
                     /\ th[t].found = None
               /\ th[t].guard = "read" =>
                     /\ is_some(th[t].found)
                     /\ ~unwrap(th[t].found).ok =>
                           th[t].ret = Some(Err("MethodSignatureNotFound"))
               /\ unwrap(th[t].ret).ok =>
                     /\ th[t].guard = "read" /\ unwrap(th[t].found).ok
                     /\ th[t].ret = Some(generate_future(unwrap(th[t].found).val,
                                                         request_of(t).val)))
    /\ [][\A t \in Threads :
            /\ (th[t].pc = "idle" /\ th'[t].pc = "hm_done") =>
                  /\ ~JrpcRequest_parse(unwrap(th'[t].message)).ok
                  /\ th'[t].ret = Some(JrpcRequest_parse(unwrap(th'[t].message)))
                  /\ lock' = lock
            /\ th'[t].pc = "hm_try_read" =>
                  /\ th[t].pc \in {"idle", "hm_try_read"}
                  /\ JrpcRequest_parse(unwrap(th'[t].message)).ok
            /\ (th'[t].pc = "hm_dispatch" /\ th[t].pc # "hm_dispatch") =>
                  /\ th[t].pc = "hm_try_read"
                  /\ t \in lock'.readers
            /\ (th'[t].found # th[t].found /\ is_some(th'[t].found)) =>
                  /\ th[t].pc = "hm_dispatch" /\ th'[t].pc = "hm_done"
                  /\ t \in lock.readers
                  /\ th'[t].found = Some(hm_get(hm_methods, request_of(t).val.method))]_vars

\* C16 witness: a text with jsonrpc "1.0" was answered InvalidJsonRpcVersion
\* while another thread holds the write guard and the table is empty
C16_Witness ==
    \E t, u \in Threads :
       /\ th[t].pc = "hm_done"
       /\ th[t].ret = Some(Err("InvalidJsonRpcVersion"))
       /\ lock.writer = Some(u)
       /\ hm_methods = EmptyTable

\* no thread other than t is inside a call
NoOtherCall(t) == \A u \in Threads \ {t} : th[u].pc \in Returned

\* C18: the lock is held only while an operation is inside the table: when
\* every call has returned, by success or by any failure, the lock is free; a
\* register_method or handle_message that reaches its try_write or try_read
\* while no other call is in progress finds the lock free and cannot return
\* RwLockPoisoned from that step; the read guard is held for the whole of
\* generate_future, so the register_method a handler attempts from inside
\* generate_future on the same JrpcHandler is refused with RwLockPoisoned.
C18_LockHeldOnlyInside ==
    /\ (\A t \in Threads : th[t].pc \in Returned) =>
          lock = [writer |-> None, readers |-> {}]
    /\ \A t \in Threads :
          /\ (th[t].pc \in {"reg_try_write", "hm_try_read"} /\ NoOtherCall(t)) =>
                /\ ~LockHeld
                /\ ~ENABLED (/\ thread(t)
                             /\ th'[t].ret = Some(Err("RwLockPoisoned")))
          /\ (th[t].pc \in Returned /\ th[t].guard # "refused"
              /\ th[t].found # Some(Ok(Handler_new("Registering")))) =>
                th[t].ret # Some(Err("RwLockPoisoned"))
          /\ (th[t].pc \in {"hm_done", "waited"}
              /\ th[t].found = Some(Ok(Handler_new("Registering")))) =>
                /\ th[t].guard = "read"
                /\ th[t].ret = Some(Err("RwLockPoisoned"))

\* C18 witness: with no other call in progress, a handle_message found the
\* handler that registers from inside generate_future; it has returned that
\* register_method's RwLockPoisoned and the lock is free again
C18_Witness ==
    \E t \in Threads :
       /\ NoOtherCall(t)
       /\ \A u \in Threads \ {t} : th[u].pc = "idle"
       /\ th[t].pc = "hm_done"
       /\ th[t].found = Some(Ok(Handler_new("Registering")))
       /\ th[t].ret = Some(Err("RwLockPoisoned"))
       /\ ~LockHeld

(***************************************************************************)
(* Properties of the message model (SpecMsg).                              *)
(***************************************************************************)
\* exactly one of result/error, and an id that is a string, a number or null
WellFormedResponse(r) ==
    /\ is_some(r.result) # is_some(r.error)
    /\ r.id.kind \in {"string", "number", "null"}

\* C3: every JrpcResponse returned Ok by JrpcResponse::new, generate_response
\* (from_jrpc_request), JrpcResponse::parse or validate, and every response a
\* future resolves to, has exactly one of result/error and a string, number or
\* null id; generate_response succeeds on every valid request and sets result
\* only for the JrpcResult variant and error only for the JrpcError variant.
C3_ResponseInvariant ==
    /\ (is_some(mm.resp) /\ unwrap(mm.resp).ok) =>
          WellFormedResponse(unwrap(mm.resp).val)
    /\ (is_some(mm.out) /\ unwrap(mm.out).ok /\ is_some(unwrap(mm.out).val)) =>
          WellFormedResponse(unwrap(unwrap(mm.out).val))
    /\ mm.op = "generate_response" =>
          /\ unwrap(mm.resp).ok
          /\ unwrap(mm.param).variant = "JrpcResult" =>
                /\ unwrap(mm.resp).val.result = Some(unwrap(mm.param).r)
                /\ is_none(unwrap(mm.resp).val.error)
          /\ unwrap(mm.param).variant = "JrpcError" =>
                /\ unwrap(mm.resp).val.error = Some(unwrap(mm.param).e)
                /\ is_none(unwrap(mm.resp).val.result)

\* C3 witness: generate_response was given the JrpcResult of a JSON null and
\* returned a response whose result is set (to null) and whose error is not
C3_Witness ==
    /\ mm.op = "generate_response"
    /\ unwrap(mm.param) = JrpcResult(JNull)
    /\ unwrap(mm.resp).ok
    /\ unwrap(mm.resp).val.result = Some(JNull)
    /\ is_none(unwrap(mm.resp).val.error)

\* the id a reply to this id carries: the id itself, null when there is none
mirrored(id) == IF is_some(id) THEN unwrap(id) ELSE JNull

\* C4: id mirroring: generate_response on a valid request with id X returns a
\* response with id X, and with id null when the request has no id; the
\* response a future returned by handle_message resolves to carries the id of
\* the request text (null when the text has none).
C4_IdMirroring ==
    /\ mm.op = "generate_response" =>
          /\ unwrap(mm.resp).ok
          /\ unwrap(mm.resp).val.id = mirrored(unwrap(mm.request).id)
    /\ (mm.op = "handle_message" /\ is_some(mm.out)
        /\ unwrap(mm.out).ok /\ is_some(unwrap(mm.out).val)) =>
          unwrap(unwrap(mm.out).val).id = mirrored(unwrap(mm.text).id)

\* C4 witness: a dispatched request text with id "1" was answered, through
\* the future, by a response with id "1"
C4_Witness ==
    /\ mm.op = "handle_message"
    /\ unwrap(mm.text).id = Some(JString("1"))
    /\ is_some(mm.out) /\ unwrap(mm.out).ok /\ is_some(unwrap(mm.out).val)
    /\ unwrap(unwrap(mm.out).val).id = JString("1")

\* C5 as claimed: for every valid request, parse(serialize(request)) succeeds
\* and returns a request equal to the original in jsonrpc, method, params and
\* id, with the same is_notification().
C5_RequestRoundTrip ==
    mm.op = "roundtrip" =>
       /\ unwrap(mm.req).ok
       /\ unwrap(mm.req).val = unwrap(mm.request)
       /\ is_notification(unwrap(mm.req).val) = is_notification(unwrap(mm.request))

\* C6 as claimed: is_notification() is true iff the request carries no id: a
\* parsed text with no id member is a notification, one with an id member
\* (string, number or null) is a call; likewise for JrpcRequest::new and its
\* id argument.
C6_NotificationIffNoId ==
    /\ (mm.op = "JrpcRequest::parse" /\ unwrap(mm.req).ok) =>
          (is_notification(unwrap(mm.req).val) <=> is_none(unwrap(mm.text).id))
    /\ (mm.op = "JrpcRequest::new" /\ unwrap(mm.req).ok) =>
          (is_notification(unwrap(mm.req).val) <=> is_none(unwrap(mm.args).id))

\* a text that is JSON and has the members a request must have: jsonrpc and
\* method, both strings
RequestShaped(text) ==
    /\ text.wf
    /\ is_some(text.jsonrpc) /\ unwrap(text.jsonrpc).kind = "string"
    /\ is_some(text.method) /\ unwrap(text.method).kind = "string"

\* an id of a shape JSON-RPC does not allow
BadId(id) == is_some(id) /\ unwrap(id).kind \in {"bool", "array", "object"}

\* C7: JrpcRequest::parse classifies every text, in this order: JsonParseError
\* when the text is not well-formed JSON for a request, InvalidJsonRpcVersion
\* when jsonrpc is not "2.0", InvalidJsonRpcId when id is a bool, an array or
\* an object, and Ok otherwise; no request returned by parse or new has a
\* jsonrpc other than "2.0" or such an id.
C7_ParseClassifies ==
    /\ mm.op = "JrpcRequest::parse" =>
          LET text == unwrap(mm.text)
              req == unwrap(mm.req)
          IN  IF ~RequestShaped(text) THEN req = Err("JsonParseError")
              ELSE IF unwrap(text.jsonrpc).v # "2.0"
                   THEN req = Err("InvalidJsonRpcVersion")
              ELSE IF BadId(text.id) THEN req = Err("InvalidJsonRpcId")
              ELSE req.ok
    /\ mm.op = "JrpcRequest::new" =>
          IF BadId(unwrap(mm.args).id) THEN unwrap(mm.req) = Err("InvalidJsonRpcId")
          ELSE unwrap(mm.req).ok
    /\ (is_some(mm.req) /\ unwrap(mm.req).ok) =>
          /\ unwrap(mm.req).val.jsonrpc = "2.0"
          /\ ~BadId(unwrap(mm.req).val.id)

\* C7 witness: a text with jsonrpc "2.0" and an array id was refused with
\* InvalidJsonRpcId
C7_Witness ==
    /\ mm.op = "JrpcRequest::parse"
    /\ RequestShaped(unwrap(mm.text))
    /\ unwrap(unwrap(mm.text).jsonrpc).v = "2.0"
    /\ unwrap(mm.text).id = Some(JArray("[42,23]"))
    /\ unwrap(mm.req) = Err("InvalidJsonRpcId")

\* the failure of the call recorded in mm, if it failed
failure_of_call ==
    IF mm.op = "JrpcRequest::parse" /\ ~unwrap(mm.req).ok
    THEN Some(unwrap(mm.req).err)
    ELSE IF mm.op = "handle_message" /\ ~unwrap(mm.future).ok
    THEN Some(unwrap(mm.future).err)
    ELSE None

\* C8 as claimed: for every request text that is well-formed JSON (here: an
\* object that names its method) and whose jsonrpc member is missing or is not
\* "2.0", JrpcRequest::parse and handle_message fail, and the JrpcError made
\* from the failure has code -32600.
C8_BadVersionIsInvalidRequest ==
    (mm.op \in {"JrpcRequest::parse", "handle_message"}
     /\ unwrap(mm.text).wf
     /\ is_some(unwrap(mm.text).method)
     /\ unwrap(unwrap(mm.text).method).kind = "string"
     /\ unwrap(mm.text).jsonrpc # Some(JString("2.0"))) =>
       /\ is_some(failure_of_call)
       /\ JrpcError_from_ErrorVariant(unwrap(failure_of_call)).code = -32600

\* the table of the failure-to-error mapping
TableCode(error_variant) ==
    IF error_variant = "JsonParseError" THEN -32700
    ELSE IF error_variant \in { "InvalidJsonRpcVersion", "InvalidJsonRpcId",
                                "ResponseCannotContainResultAndError",
                                "ResponseMustContainResultOrError" }
    THEN -32600
    ELSE IF error_variant = "MethodSignatureNotFound" THEN -32601
    ELSE -32603

\* C9: JrpcError::from(ErrorVariant) is total and follows the table: -32700
\* for JsonParseError, -32600 for InvalidJsonRpcVersion, InvalidJsonRpcId and
\* the two response failures, -32601 for MethodSignatureNotFound, -32603 for
\* RwLockPoisoned, NoRequestProvided and every other variant; the error
\* carries no data; and every failure handle_message or a future returns is
\* one of the variants and maps to one of the five standard codes.
C9_FailureMapping ==
    /\ mm.op = "JrpcError::from" =>
          /\ unwrap(mm.error).code = TableCode(unwrap(mm.variant))
          /\ unwrap(mm.error).code \in {-32700, -32600, -32601, -32602, -32603}
          /\ is_none(unwrap(mm.error).data)
    /\ (mm.op = "handle_message" /\ ~unwrap(mm.future).ok) =>
          /\ unwrap(mm.future).err \in ErrorVariant
          /\ JrpcError_from_ErrorVariant(unwrap(mm.future).err).code =
                TableCode(unwrap(mm.future).err)
    /\ (mm.op = "handle_message" /\ is_some(mm.out) /\ ~unwrap(mm.out).ok) =>
          /\ unwrap(mm.out).err \in ErrorVariant
          /\ JrpcError_from_ErrorVariant(unwrap(mm.out).err).code =
                TableCode(unwrap(mm.out).err)

\* C9 witness: the error made from InvalidJsonRpcId has code -32600
C9_Witness ==
    /\ mm.op = "JrpcError::from"
    /\ unwrap(mm.variant) = "InvalidJsonRpcId"
    /\ unwrap(mm.error).code = -32600

\* C13: when handle_message dispatches a request to a registered handler made
\* by generate_method! whose poll replies through generate_response
\* (CopyParams, Subtract, Update), the future resolves to Ok(Some(response)),
\* for a call and for a notification alike; for a text with no id member the
\* response has id null and exactly one of result/error.
C13_HelpersAlwaysReply ==
    (/\ mm.op = "handle_message"
     /\ unwrap(mm.handler) \in MacroHandlers
     /\ unwrap(mm.future).ok) =>
       /\ is_some(mm.out)
       /\ unwrap(mm.out).ok
       /\ is_some(unwrap(mm.out).val)
       /\ is_none(unwrap(mm.text).id) =>
             LET response == unwrap(unwrap(mm.out).val)
             IN  /\ response.id = JNull
                 /\ is_some(response.result) # is_some(response.error)

\* C13 witness: the Update handler has replied to a notification with a
\* response of id null and result null
C13_Witness ==
    /\ mm.op = "handle_message"
    /\ unwrap(mm.handler) = "Update"
    /\ unwrap(mm.text).wf /\ is_none(unwrap(mm.text).id)
    /\ is_some(mm.out) /\ unwrap(mm.out).ok /\ is_some(unwrap(mm.out).val)
    /\ unwrap(unwrap(mm.out).val).id = JNull
    /\ unwrap(unwrap(mm.out).val).result = Some(JNull)
    /\ is_none(unwrap(unwrap(mm.out).val).error)

\* the classification of the specification: the five fixed codes, the closed
\* range [-32099, -32000], anything else
Classification(code) ==
    CASE code = -32700 -> "ParseError"
      [] code = -32600 -> "InvalidRequest"
      [] code = -32601 -> "MethodNotFound"
      [] code = -32602 -> "InvalidParams"
      [] code = -32603 -> "InternalError"
      [] code \in -32099..-32000 -> "ServerError"
      [] OTHER -> "Other"

\* C15: i32::from(JrpcErrorEnum) is the inverse of JrpcErrorEnum::from(i32):
\* JrpcErrorEnum::from classifies every code as the specification says; for
\* every enum value e, JrpcErrorEnum::from(i32::from(e)) = e; for every code
\* c, i32::from(JrpcErrorEnum::from(c)) = c, and JrpcError::from(c) has code c.
C15_CodeOfInvertsClassify ==
    /\ mm.op = "JrpcErrorEnum::from" =>
          unwrap(mm.error_enum) = Classification(unwrap(mm.code))
    /\ mm.op = "i32::from" =>
          JrpcErrorEnum_from_i32(unwrap(mm.i32)) = unwrap(mm.error_enum)
    /\ (mm.op = "i32::from" /\ is_some(mm.code)) =>
          unwrap(mm.i32) = unwrap(mm.code)
    /\ mm.op = "JrpcError::from(i32)" =>
          unwrap(mm.error).code = unwrap(mm.code)

\* C17: response round trip: every response generate_response returns, for any
\* valid request and any JrpcResponseParam (a JrpcResult of null included),
\* serialized with serde_json::to_string and read with JrpcResponse::parse,
\* comes back Ok with the same result, error and id.
C17_ResponseRoundTrip ==
    mm.op = "response roundtrip" =>
       /\ unwrap(mm.resp).ok
       /\ unwrap(mm.resp).val.result = unwrap(mm.response).result
       /\ unwrap(mm.resp).val.error = unwrap(mm.response).error
       /\ unwrap(mm.resp).val.id = unwrap(mm.response).id

=============================================================================
